---- MODULE Spec2Model ----
(***************************************************************************)
(* ConversationsRouter (py/core/main/api/v3/conversations_router.py):      *)
(* seven HTTP handlers that validate, scope by owner and delegate to the   *)
(* ManagementService, which owns the conversations and the messages.       *)
(*                                                                         *)
(* Python values: None is <<>> and a present Optional value v is <<v>>; a  *)
(* dict is a function; a UUID is a natural number; a UUID given as text    *)
(* (the ids query parameter) is a pair <<spelling, number>>.               *)
(***************************************************************************)
EXTENDS Integers, Sequences, FiniteSets, TLC

VARIABLES
    conversations,          \* ManagementService: conversation id -> [user_id, name]
    messages,               \* ManagementService: message id -> [conversation_id, role, content, parent_id, metadata]
    next_conversation_id,   \* ManagementService: the next fresh conversation UUID
    next_message_id,        \* ManagementService: the next fresh message UUID
    req,                    \* the request being answered (NoReq between requests)
    call,                   \* the ManagementService call the handler made for req (NoCall: none)
    resp,                   \* the handler's outcome for req
    deleted                 \* conversation ids whose delete was acknowledged with success

vars == <<conversations, messages, next_conversation_id, next_message_id,
          req, call, resp, deleted>>

-----------------------------------------------------------------------------
(* Bounds of the model *)

MaxConvs == 2       \* conversation UUIDs ever generated
MaxMsgs == 1        \* message UUIDs ever generated
MaxOffset == 1      \* largest offset a list request carries
MaxLimit == 2       \* largest small limit a list request carries (LimitMax is always tried too)

(* Program constants *)

LimitMin == 1
LimitDefault == 100
LimitMax == 1000
OffsetMin == 0

None == <<>>
Some(v) == <<v>>

\* Mutant: system is left out of the accepted roles.
ValidRoles_without_system == {"user", "assistant"}

ValidRoles == {"user", "assistant", "system"}

-----------------------------------------------------------------------------
(* Inputs *)

Users == { [id |-> "u1", is_superuser |-> FALSE],
           [id |-> "u2", is_superuser |-> FALSE],
           [id |-> "su", is_superuser |-> TRUE] }

ConvIds == 1..MaxConvs
MsgIds == 1..MaxMsgs
Names == {"a", "b"}
OptNames == {None} \cup {Some(n) : n \in Names}
Roles == {"user", "assistant", "system", "admin"}
AddContents == {"", "hi"}
EditContents == {None, Some("yo")}
AddMetadata == {None, Some("k" :> "v1")}
EditMetadata == {None, Some("k" :> "v2")}
OptMsgIds == {None} \cup {Some(m) : m \in MsgIds}
Offsets == OffsetMin..MaxOffset
Limits == (LimitMin..MaxLimit) \cup {LimitMax}

\* The spellings of a UUID in a query string: uuid.UUID accepts several for
\* the same UUID, and rejects text that is none.
IdStrings == {<<"hex", c>> : c \in ConvIds} \cup {<<"HEX", 1>>, <<"bad", 0>>}

\* The ids filters tried: none, each single id, and the first conversation
\* named twice in two spellings.
IdLists ==
    {<<>>} \cup {<<s>> : s \in IdStrings} \cup {<< <<"hex", 1>>, <<"HEX", 1>> >>}

Range(s) == {s[i] : i \in DOMAIN s}

-----------------------------------------------------------------------------
(* Requests, calls, responses *)

NoReq == [op |-> "none"]
NoCall == [fn |-> "none"]
NoResp == [status |-> 0]

Ok(body) == [status |-> 200, body |-> body]
Error(status, message) == [status |-> status, message |-> message]

-----------------------------------------------------------------------------
(* ManagementService: the collaborator the handlers delegate to.  Each    *)
(* operator reads the stored state and yields the reply and the state it  *)
(* leaves.                                                                 *)

Left(r, c, m, nc, nm) ==
    [resp |-> r, conversations |-> c, messages |-> m,
     next_conversation_id |-> nc, next_message_id |-> nm]

Unchanged(r) ==
    Left(r, conversations, messages, next_conversation_id, next_message_id)

NotFound(what) == Unchanged(Error(404, what))

\* The elements of a set of numbers, ascending.
SortedSeq(S) ==
    CHOOSE s \in [1..Cardinality(S) -> S] :
        \A i, j \in 1..Cardinality(S) : i < j => s[i] < s[j]

Min(a, b) == IF a < b THEN a ELSE b

\* An owner restriction admits a conversation: None admits every owner.
Admits(user_ids, c) ==
    user_ids = None \/ conversations[c].user_id \in Range(user_ids[1])

ConversationBody(c) ==
    [id |-> c, user_id |-> conversations[c].user_id, name |-> conversations[c].name]

MessageBody(m) ==
    [id |-> m, conversation_id |-> messages[m].conversation_id,
     role |-> messages[m].role, content |-> messages[m].content,
     parent_id |-> messages[m].parent_id, metadata |-> messages[m].metadata]

MessagesOf(c) == {m \in DOMAIN messages : messages[m].conversation_id = c}

management_create_conversation(user_id, name) ==
    LET id == next_conversation_id
        rec == [user_id |-> user_id, name |-> name]
    IN Left(Ok([id |-> id, user_id |-> user_id, name |-> name]),
            [c \in DOMAIN conversations \cup {id} |->
                IF c = id THEN rec ELSE conversations[c]],
            messages, id + 1, next_message_id)

\* The conversations an overview call is about: the id filter (an empty
\* list filters nothing) and the owner restriction.
Matching(conversation_ids, user_ids) ==
    {c \in DOMAIN conversations :
        /\ conversation_ids = <<>> \/ c \in Range(conversation_ids)
        /\ Admits(user_ids, c)}

management_conversations_overview(offset, limit, conversation_ids, user_ids) ==
    LET all == SortedSeq(Matching(conversation_ids, user_ids))
        page == SubSeq(all, offset + 1, Min(Len(all), offset + limit))
    IN Unchanged(Ok([results |-> [i \in DOMAIN page |-> ConversationBody(page[i])],
                     total_entries |-> Len(all)]))

management_get_conversation(conversation_id, user_ids) ==
    IF conversation_id \in DOMAIN conversations /\ Admits(user_ids, conversation_id)
    THEN LET ms == SortedSeq(MessagesOf(conversation_id))
         IN Unchanged(Ok([id |-> conversation_id,
                          user_id |-> conversations[conversation_id].user_id,
                          name |-> conversations[conversation_id].name,
                          messages |-> [i \in DOMAIN ms |-> MessageBody(ms[i])]]))
    ELSE NotFound("conversation")

management_update_conversation(conversation_id, name) ==
    IF conversation_id \in DOMAIN conversations
    THEN Left(Ok([id |-> conversation_id,
                  user_id |-> conversations[conversation_id].user_id,
                  name |-> Some(name)]),
              [conversations EXCEPT ![conversation_id].name = Some(name)],
              messages, next_conversation_id, next_message_id)
    ELSE NotFound("conversation")

management_delete_conversation(conversation_id, user_ids) ==
    IF conversation_id \in DOMAIN conversations /\ Admits(user_ids, conversation_id)
    THEN Left(Ok(None),
              [c \in DOMAIN conversations \ {conversation_id} |-> conversations[c]],
              [m \in DOMAIN messages \ MessagesOf(conversation_id) |-> messages[m]],
              next_conversation_id, next_message_id)
    ELSE NotFound("conversation")

management_add_message(conversation_id, content, parent_id, metadata) ==
    IF conversation_id \notin DOMAIN conversations
    THEN NotFound("conversation")
    ELSE IF parent_id # None /\ parent_id[1] \notin MessagesOf(conversation_id)
    THEN NotFound("parent message")
    ELSE LET id == next_message_id
             rec == [conversation_id |-> conversation_id,
                     role |-> content.role, content |-> content.content,
                     parent_id |-> parent_id,
                     metadata |-> IF metadata = None THEN <<>> ELSE metadata[1]]
         IN Left(Ok([id |-> id, conversation_id |-> conversation_id,
                     role |-> rec.role, content |-> rec.content,
                     parent_id |-> parent_id, metadata |-> rec.metadata]),
                 conversations,
                 [m \in DOMAIN messages \cup {id} |->
                     IF m = id THEN rec ELSE messages[m]],
                 next_conversation_id, id + 1)

management_edit_message(message_id, new_content, additional_metadata) ==
    IF message_id \notin DOMAIN messages
    THEN NotFound("message")
    ELSE LET old == messages[message_id]
             new == [old EXCEPT
                       !.content = IF new_content = None THEN @ ELSE new_content[1],
                       !.metadata = IF additional_metadata = None THEN @
                                    ELSE additional_metadata[1] @@ @]
         IN Left(Ok([id |-> message_id, conversation_id |-> new.conversation_id,
                     role |-> new.role, content |-> new.content,
                     parent_id |-> new.parent_id, metadata |-> new.metadata]),
                 conversations,
                 [messages EXCEPT ![message_id] = new],
                 next_conversation_id, next_message_id)

\* The call a handler makes, carried out by the service.
Management(c) ==
    CASE c.fn = "create_conversation" ->
            management_create_conversation(c.user_id, c.name)
      [] c.fn = "conversations_overview" ->
            management_conversations_overview(c.offset, c.limit, c.conversation_ids, c.user_ids)
      [] c.fn = "get_conversation" ->
            management_get_conversation(c.conversation_id, c.user_ids)
      [] c.fn = "update_conversation" ->
            management_update_conversation(c.conversation_id, c.name)
      [] c.fn = "delete_conversation" ->
            management_delete_conversation(c.conversation_id, c.user_ids)
      [] c.fn = "add_message" ->
            management_add_message(c.conversation_id, c.content, c.parent_id, c.metadata)
      [] c.fn = "edit_message" ->
            management_edit_message(c.message_id, c.new_content, c.additional_metadata)

-----------------------------------------------------------------------------
(* ConversationsRouter: the handlers.  Each yields the call it made (NoCall *)
(* when it made none), its outcome and the state the service is left in.   *)

Raise(status, message) ==
    [call |-> NoCall, resp |-> Error(status, message),
     conversations |-> conversations, messages |-> messages,
     next_conversation_id |-> next_conversation_id,
     next_message_id |-> next_message_id]

\* await self.services.management.<fn>(...): a failure of the call is the
\* handler's outcome.
Delegate(c) ==
    LET r == Management(c)
    IN [call |-> c, resp |-> r.resp,
        conversations |-> r.conversations, messages |-> r.messages,
        next_conversation_id |-> r.next_conversation_id,
        next_message_id |-> r.next_message_id]

\* Mutant: no owner restriction for anyone.
requesting_user_id_unscoped(auth_user) == None

\* None if auth_user.is_superuser else [auth_user.id]
requesting_user_id(auth_user) ==
    IF auth_user.is_superuser THEN None ELSE Some(<<auth_user.id>>)

\* uuid.UUID(text): the UUID a spelling denotes; text that is none raises.
IsUUID(text) == text[1] \in {"hex", "HEX"}
UUID(text) == text[2]

\* Mutant: the conversation is created for a fixed user.
create_conversation_for_fixed_user(name, auth_user) ==
    Delegate([fn |-> "create_conversation", user_id |-> "u1", name |-> name])

\* Mutant: the name is not passed on.
create_conversation_unnamed(name, auth_user) ==
    Delegate([fn |-> "create_conversation", user_id |-> auth_user.id, name |-> None])

create_conversation(name, auth_user) ==
    LET user_id == auth_user.id
    IN Delegate([fn |-> "create_conversation", user_id |-> user_id, name |-> name])

\* Mutant: the limit is not passed on, the default is used.
list_conversations_default_limit(ids, offset, limit, auth_user) ==
    IF \E i \in DOMAIN ids : ~IsUUID(ids[i])
    THEN Raise(500, "ValueError")
    ELSE Delegate([fn |-> "conversations_overview",
                   offset |-> offset, limit |-> LimitDefault,
                   conversation_ids |-> [i \in DOMAIN ids |-> UUID(ids[i])],
                   user_ids |-> requesting_user_id(auth_user)])

list_conversations(ids, offset, limit, auth_user) ==
    LET user_ids == requesting_user_id(auth_user)
    IN IF \E i \in DOMAIN ids : ~IsUUID(ids[i])
       THEN Raise(500, "ValueError")
       ELSE LET conversation_uuids == [i \in DOMAIN ids |-> UUID(ids[i])]
                d == Delegate([fn |-> "conversations_overview",
                               offset |-> offset, limit |-> limit,
                               conversation_ids |-> conversation_uuids,
                               user_ids |-> user_ids])
            IN IF d.resp.status = 200
               THEN [d EXCEPT !.resp = Ok([results |-> d.resp.body.results,
                                           total_entries |-> d.resp.body.total_entries])]
               ELSE d

\* Mutant: a failed call is answered with an empty conversation.
get_conversation_or_empty(id, auth_user) ==
    LET d == Delegate([fn |-> "get_conversation", conversation_id |-> id,
                       user_ids |-> requesting_user_id(auth_user)])
    IN IF d.resp.status = 200
       THEN d
       ELSE [d EXCEPT !.resp = Ok([id |-> id, messages |-> <<>>])]

get_conversation(id, auth_user) ==
    LET user_ids == requesting_user_id(auth_user)
    IN Delegate([fn |-> "get_conversation", conversation_id |-> id,
                 user_ids |-> user_ids])

update_conversation(id, name, auth_user) ==
    Delegate([fn |-> "update_conversation", conversation_id |-> id, name |-> name])

\* Mutant: success is acknowledged whatever the service answered.
delete_conversation_always_ack(id, auth_user) ==
    LET d == Delegate([fn |-> "delete_conversation", conversation_id |-> id,
                       user_ids |-> requesting_user_id(auth_user)])
    IN [d EXCEPT !.resp = Ok([success |-> TRUE])]

delete_conversation(id, auth_user) ==
    LET user_ids == requesting_user_id(auth_user)
        d == Delegate([fn |-> "delete_conversation", conversation_id |-> id,
                       user_ids |-> user_ids])
    IN IF d.resp.status = 200
       THEN [d EXCEPT !.resp = Ok([success |-> TRUE])]
       ELSE d

\* Mutant: the content is not checked.
add_message_unchecked_content(id, content, role, parent_id, metadata, auth_user) ==
    IF role \notin ValidRoles
    THEN Raise(400, "Invalid role")
    ELSE Delegate([fn |-> "add_message", conversation_id |-> id,
                   content |-> [role |-> role, content |-> content],
                   parent_id |-> parent_id, metadata |-> metadata])

\* Mutant: the message is handed to the service before it is validated.
add_message_delegate_first(id, content, role, parent_id, metadata, auth_user) ==
    LET d == Delegate([fn |-> "add_message", conversation_id |-> id,
                       content |-> [role |-> role, content |-> content],
                       parent_id |-> parent_id, metadata |-> metadata])
    IN IF content = ""
       THEN [d EXCEPT !.resp = Error(400, "Content cannot be empty")]
       ELSE IF role \notin ValidRoles
       THEN [d EXCEPT !.resp = Error(400, "Invalid role")]
       ELSE d

add_message(id, content, role, parent_id, metadata, auth_user) ==
    IF content = ""
    THEN Raise(400, "Content cannot be empty")
    ELSE IF role \notin ValidRoles
    THEN Raise(400, "Invalid role")
    ELSE LET message == [role |-> role, content |-> content]
         IN Delegate([fn |-> "add_message", conversation_id |-> id,
                      content |-> message, parent_id |-> parent_id,
                      metadata |-> metadata])

\* Mutant: the edit is stored as a new message of the conversation.
update_message_as_new_message(id, message_id, content, metadata, auth_user) ==
    Delegate([fn |-> "add_message", conversation_id |-> id,
              content |-> [role |-> "user",
                           content |-> IF content = None THEN "" ELSE content[1]],
              parent_id |-> None, metadata |-> metadata])

update_message(id, message_id, content, metadata, auth_user) ==
    Delegate([fn |-> "edit_message", message_id |-> message_id,
              new_content |-> content, additional_metadata |-> metadata])

-----------------------------------------------------------------------------
(* The state machine: one request is answered at a time.                   *)

Init ==
    /\ conversations = <<>>
    /\ messages = <<>>
    /\ next_conversation_id = 1
    /\ next_message_id = 1
    /\ req = NoReq
    /\ call = NoCall
    /\ resp = NoResp
    /\ deleted = {}

\* Request r is answered with handler outcome o.  The UUID generators are
\* capped at MaxConvs and MaxMsgs.
Handle(r, o) ==
    /\ req = NoReq
    /\ o.next_conversation_id <= MaxConvs + 1
    /\ o.next_message_id <= MaxMsgs + 1
    /\ req' = r
    /\ call' = o.call
    /\ resp' = o.resp
    /\ conversations' = o.conversations
    /\ messages' = o.messages
    /\ next_conversation_id' = o.next_conversation_id
    /\ next_message_id' = o.next_message_id
    /\ deleted' = IF r.op = "delete_conversation" /\ o.resp.status = 200
                  THEN deleted \cup {r.id}
                  ELSE deleted

CreateConversation ==
    \E auth_user \in Users, name \in OptNames :
        Handle([op |-> "create_conversation", auth_user |-> auth_user, name |-> name],
               create_conversation(name, auth_user))

ListConversations ==
    \E auth_user \in Users, ids \in IdLists, offset \in Offsets, limit \in Limits :
        Handle([op |-> "list_conversations", auth_user |-> auth_user, ids |-> ids,
                offset |-> offset, limit |-> limit],
               list_conversations(ids, offset, limit, auth_user))

GetConversation ==
    \E auth_user \in Users, id \in ConvIds :
        Handle([op |-> "get_conversation", auth_user |-> auth_user, id |-> id],
               get_conversation(id, auth_user))

UpdateConversation ==
    \E auth_user \in Users, id \in ConvIds, name \in Names :
        Handle([op |-> "update_conversation", auth_user |-> auth_user, id |-> id,
                name |-> name],
               update_conversation(id, name, auth_user))

DeleteConversation ==
    \E auth_user \in Users, id \in ConvIds :
        Handle([op |-> "delete_conversation", auth_user |-> auth_user, id |-> id],
               delete_conversation(id, auth_user))

AddMessage ==
    \E auth_user \in Users, id \in ConvIds, content \in AddContents, role \in Roles,
       parent_id \in OptMsgIds, metadata \in AddMetadata :
        Handle([op |-> "add_message", auth_user |-> auth_user, id |-> id,
                content |-> content, role |-> role, parent_id |-> parent_id,
                metadata |-> metadata],
               add_message(id, content, role, parent_id, metadata, auth_user))

UpdateMessage ==
    \E auth_user \in Users, id \in ConvIds, message_id \in MsgIds,
       content \in EditContents, metadata \in EditMetadata :
        Handle([op |-> "update_message", auth_user |-> auth_user, id |-> id,
                message_id |-> message_id, content |-> content,
                metadata |-> metadata],
               update_message(id, message_id, content, metadata, auth_user))

\* The response is sent; the router keeps nothing of a request.
Respond ==
    /\ req.op # "none"
    /\ req' = NoReq
    /\ call' = NoCall
    /\ resp' = NoResp
    /\ UNCHANGED <<conversations, messages, next_conversation_id,
                   next_message_id, deleted>>

Next ==
    \/ CreateConversation
    \/ ListConversations
    \/ GetConversation
    \/ UpdateConversation
    \/ DeleteConversation
    \/ AddMessage
    \/ UpdateMessage
    \/ Respond

Spec == Init /\ [][Next]_vars

\* Spec is the whole router.  The properties are checked under two parts of
\* it, whose state spaces are exhaustively explored: the conversation
\* endpoints, and the message endpoints over two existing conversations.

\* The conversation endpoints alone: no message is ever added.
NextConversations ==
    \/ CreateConversation
    \/ ListConversations
    \/ GetConversation
    \/ UpdateConversation
    \/ DeleteConversation
    \/ Respond

SpecConversations == Init /\ [][NextConversations]_vars

\* The message endpoints, from the state two create requests leave: u1 and
\* u2 each own one unnamed conversation.
InitMessages ==
    /\ conversations = (1 :> [user_id |-> "u1", name |-> None])
                        @@ (2 :> [user_id |-> "u2", name |-> None])
    /\ messages = <<>>
    /\ next_conversation_id = 3
    /\ next_message_id = 1
    /\ req = NoReq
    /\ call = NoCall
    /\ resp = NoResp
    /\ deleted = {}

NextMessages ==
    \/ AddMessage
    \/ UpdateMessage
    \/ GetConversation
    \/ DeleteConversation
    \/ Respond

SpecMessages == InitMessages /\ [][NextMessages]_vars

-----------------------------------------------------------------------------
(* Properties *)

\* A handler step: the step from no request to an answered request.
Handled(op) == req.op = "none" /\ req'.op = op

IsOwner(u, c) == conversations[c].user_id = u.id

\* The conversations a request with this ids filter by this caller is about.
InScope(ids, u) ==
    {c \in DOMAIN conversations :
        /\ ids = <<>> \/ \E i \in DOMAIN ids : UUID(ids[i]) = c
        /\ u.is_superuser \/ IsOwner(u, c)}

C1_Scoped ==
    LET u == req'.auth_user
    IN /\ call'.fn # "none" =>
            call'.user_ids = IF u.is_superuser THEN None ELSE Some(<<u.id>>)
       /\ req'.op = "list_conversations" /\ resp'.status = 200 =>
            /\ \A i \in DOMAIN resp'.body.results :
                   u.is_superuser \/ resp'.body.results[i].user_id = u.id
            /\ resp'.body.total_entries = Cardinality(InScope(req'.ids, u))
       /\ req'.op = "get_conversation" =>
            (resp'.status = 200) =
                (req'.id \in DOMAIN conversations
                 /\ (u.is_superuser \/ IsOwner(u, req'.id)))
       /\ req'.op = "delete_conversation" =>
            /\ (resp'.status = 200) =
                   (req'.id \in DOMAIN conversations
                    /\ (u.is_superuser \/ IsOwner(u, req'.id)))
            /\ DOMAIN conversations' =
                   IF resp'.status = 200 THEN DOMAIN conversations \ {req'.id}
                   ELSE DOMAIN conversations
       /\ \A c \in DOMAIN conversations' : conversations'[c] = conversations[c]

\* C1: a list, get or delete request passes [caller id] as the owner
\* restriction when the caller is not a superuser and None when it is: a
\* non-superuser is returned only its own conversations and deletes only its
\* own, a superuser gets, lists and deletes any conversation.
C1_OwnerScope ==
    [][(Handled("list_conversations") \/ Handled("get_conversation")
        \/ Handled("delete_conversation")) => C1_Scoped]_vars

\* A non-superuser lists while another user owns a conversation, and is
\* given its own only.
C1_Witness ==
    /\ req.op = "list_conversations"
    /\ ~req.auth_user.is_superuser
    /\ resp.status = 200
    /\ Len(resp.body.results) = 1
    /\ Cardinality(DOMAIN conversations) = 2

\* C2: an update-conversation request by a non-superuser on a conversation
\* it does not own fails and leaves the name unchanged; a name is only ever
\* changed by a request of the conversation's owner or of a superuser.
C2_RenameOnlyByOwner ==
    [][\A c \in DOMAIN conversations \cap DOMAIN conversations' :
          LET u == req'.auth_user
          IN /\ (Handled("update_conversation") /\ req'.id = c
                 /\ ~u.is_superuser /\ ~IsOwner(u, c))
                   => resp'.status # 200
             /\ conversations'[c].name # conversations[c].name
                   => (u.is_superuser \/ IsOwner(u, c))]_vars

\* The messages of conversation c, as stored.
MessagesIn(c) == [m \in MessagesOf(c) |-> messages[m]]

\* C3: the set of messages of a conversation, and their content and
\* metadata, are only ever changed by a request of the conversation's owner
\* or of a superuser.
C3_MessagesOnlyByOwner ==
    [][\A c \in DOMAIN conversations :
          MessagesIn(c)' # MessagesIn(c)
              => (req'.auth_user.is_superuser \/ IsOwner(req'.auth_user, c))]_vars

\* C4: an add-message request with empty content is answered 400, whatever
\* its role, parent id and metadata.
C4_EmptyContentRejected ==
    (req.op = "add_message" /\ req.content = "") => resp.status = 400

\* Empty content is rejected although the role is valid and a parent id and
\* metadata are given.
C4_Witness ==
    /\ req.op = "add_message"
    /\ req.content = ""
    /\ req.role = "user"
    /\ req.parent_id # None
    /\ req.metadata # None
    /\ resp.status = 400

\* C5: an add-message request with non-empty content is answered 400 when
\* its role is not user, assistant or system, and is delegated to the
\* service (not answered 400) when it is.
C5_RoleValidated ==
    (req.op = "add_message" /\ req.content # "") =>
        IF req.role \in {"user", "assistant", "system"}
        THEN call.fn = "add_message" /\ resp.status # 400
        ELSE resp.status = 400

\* Role system, with non-empty content, is accepted and the message stored.
C5_Witness ==
    /\ req.op = "add_message"
    /\ req.content # ""
    /\ req.role = "system"
    /\ resp.status = 200
    /\ resp.body.role = "system"

\* C6: an add-message request that fails validation makes no service call
\* and leaves the conversations and the messages as they were.
C6_ValidationBeforeDelegation ==
    [][(Handled("add_message")
        /\ (req'.content = "" \/ req'.role \notin {"user", "assistant", "system"}))
          => /\ call'.fn = "none"
             /\ UNCHANGED <<conversations, messages, next_conversation_id,
                            next_message_id>>]_vars

\* An invalid role is rejected for an existing conversation the caller owns.
C6_Witness ==
    /\ req.op = "add_message"
    /\ req.content # ""
    /\ req.role = "admin"
    /\ req.id \in DOMAIN conversations
    /\ conversations[req.id].user_id = req.auth_user.id
    /\ resp.status = 400
    /\ call.fn = "none"

\* C7: a create request is delegated with the caller's id as user_id and the
\* name as given, and the conversation returned and stored is owned by the
\* caller, superuser or not.
C7_CreatedOwnedByCaller ==
    req.op = "create_conversation" =>
        /\ call.fn = "create_conversation"
        /\ call.user_id = req.auth_user.id
        /\ call.name = req.name
        /\ resp.status = 200
        /\ resp.body.user_id = req.auth_user.id
        /\ resp.body.id \in DOMAIN conversations
        /\ conversations[resp.body.id].user_id = req.auth_user.id

\* A superuser creates a second conversation, the first being another user's.
C7_Witness ==
    /\ req.op = "create_conversation"
    /\ req.auth_user.is_superuser
    /\ resp.status = 200
    /\ resp.body.id = 2
    /\ 1 \in DOMAIN conversations
    /\ conversations[1].user_id = "u1"
    /\ conversations[2].user_id = "su"

\* What a get request by the owner of conversation c is answered now.
GetByOwner(c) ==
    get_conversation(c, CHOOSE u \in Users : u.id = conversations[c].user_id).resp

\* C8: after a create request with name N, a get request by the owner is
\* answered with name N; after an update request with name N2 it is answered
\* with name N2.
C8_NameRoundTrip ==
    /\ (req.op = "create_conversation" /\ resp.status = 200) =>
          /\ GetByOwner(resp.body.id).status = 200
          /\ GetByOwner(resp.body.id).body.name = req.name
    /\ (req.op = "update_conversation" /\ resp.status = 200) =>
          /\ GetByOwner(req.id).status = 200
          /\ GetByOwner(req.id).body.name = Some(req.name)

\* The owner of a conversation created as "a" and renamed gets it as "b".
C8_Witness ==
    /\ req.op = "get_conversation"
    /\ resp.status = 200
    /\ resp.body.user_id = req.auth_user.id
    /\ resp.body.name = Some("b")
    /\ ~req.auth_user.is_superuser

\* C9: once a delete request on an id has been acknowledged, every get
\* request on that id is answered 404, whoever asks.
C9_DeletedStaysGone ==
    /\ \A c \in deleted : \A u \in Users : get_conversation(c, u).resp.status = 404
    /\ (req.op = "get_conversation" /\ req.id \in deleted) => resp.status = 404

\* A superuser asks for a deleted conversation after another was created.
C9_Witness ==
    /\ req.op = "get_conversation"
    /\ req.id \in deleted
    /\ req.auth_user.is_superuser
    /\ DOMAIN conversations # {}
    /\ resp.status = 404

Once(c) == Management(c)

\* C12: a request makes at most one service call: the state it leaves is the
\* state that one call leaves (the state it found, when it made none); a
\* failed call's error is the request's outcome as it is, and a request is
\* answered with success only when its call succeeded - delete acknowledges
\* only a delete that the service carried out.
C12_SingleCallPropagated ==
    [][(req.op = "none" /\ req'.op # "none") =>
          IF call'.fn = "none"
          THEN /\ resp'.status # 200
               /\ UNCHANGED <<conversations, messages, next_conversation_id,
                              next_message_id>>
          ELSE /\ conversations' = Once(call').conversations
               /\ messages' = Once(call').messages
               /\ next_conversation_id' = Once(call').next_conversation_id
               /\ next_message_id' = Once(call').next_message_id
               /\ Once(call').resp.status # 200 => resp' = Once(call').resp
               /\ resp'.status = 200 => Once(call').resp.status = 200]_vars

\* A delete by a user who does not own the conversation: the service's 404
\* is the answer and the conversation is still there.
C12_Witness ==
    /\ req.op = "delete_conversation"
    /\ call.fn = "delete_conversation"
    /\ resp.status = 404
    /\ req.id \in DOMAIN conversations

\* C13: an update-message request on conversation C and message M is
\* answered 404 when C does not exist or M is not a message of C; a message
\* is only ever changed by a request that names its conversation.
C13_MessageOfNamedConversation ==
    [][Handled("update_message") =>
          /\ (req'.id \notin DOMAIN conversations
              \/ req'.message_id \notin MessagesOf(req'.id))
                => resp'.status = 404
          /\ \A m \in DOMAIN messages \cap DOMAIN messages' :
                messages'[m] # messages[m] => messages[m].conversation_id = req'.id]_vars

====
